---- MODULE Spec2Model ----
(***************************************************************************)
(* Fee / payment reconciliation of the school management system           *)
(* (api/endpoints/payments.py over models/payment.py).                    *)
(*                                                                         *)
(* Amounts are whole currency units: the columns are Float, and sums and  *)
(* differences of small whole numbers are exact in binary floating point, *)
(* so Integers compute what the handlers compute on these inputs.         *)
(* Requests carry non-null values; each handler runs to completion        *)
(* before the next request starts.                                        *)
(***************************************************************************)
EXTENDS Integers, FiniteSets, Sequences, TLC

\* ---------------------------------------------------------------- bounds
MaxFeeRecords == 1      \* fee records ever stored at once
MaxPayments == 2        \* payments stored at once
MaxAmount == 1          \* largest amount of a payment request
MaxTotal == 2           \* largest total_amount / balance of a fee record request
MaxTimetableSlots == 2  \* timetable slots stored at once
MaxTime == 2            \* latest time of day of a slot request, in hours after 08:00

\* ------------------------------------------------------- PaymentStatus enum
PENDING == "pending"
PAID == "paid"
PARTIALLY_PAID == "partially_paid"
OVERDUE == "overdue"
CANCELLED == "cancelled"
REFUNDED == "refunded"

PaymentStatus == {PENDING, PAID, PARTIALLY_PAID, OVERDUE, CANCELLED, REFUNDED}

\* ---------------------------------------------------------- request inputs
\* PaymentBase.amount is a plain float: zero and negative amounts are accepted.
Amounts == (0 - 1)..MaxAmount
Totals == 0..MaxTotal
PaidAmounts == 0..1
DueDates == {"2025-01-31"}
AcademicYears == {"2024-2025"}
Terms == {"Term 1"}
StudentIds == {1}
FeeStructureIds == {1}

FeeRecordIds == 1..MaxFeeRecords
PaymentIds == 1..MaxPayments

\* FeeRecordCreate: every field of FeeRecordBase, balance and status included,
\* is taken from the request as it is.
\* The requests enumerated send the balance that matches paid_amount, or the
\* whole total_amount (a balance that ignores the amount already paid).
FeeRecordCreate ==
    {r \in [academic_year : AcademicYears, term : Terms, total_amount : Totals,
            paid_amount : PaidAmounts, balance : (0 - 1)..MaxTotal,
            status : PaymentStatus, due_date : DueDates,
            student_id : StudentIds, fee_structure_id : FeeStructureIds] :
        r.balance \in {r.total_amount - r.paid_amount, r.total_amount}}

\* FeeRecordUpdate after dict(exclude_unset=True): the fields the request sets.
FeeRecordUpdate ==
    {<<>>}
        \cup [paid_amount : PaidAmounts]
        \cup [balance : Totals]
        \cup [total_amount : Totals]
        \cup [status : PaymentStatus]
        \cup [due_date : DueDates]
        \cup [paid_amount : PaidAmounts, balance : Totals]

\* PaymentUpdate after dict(exclude_unset=True), as far as amount goes.
PaymentUpdate == {<<>>} \cup [amount : Amounts]

PaymentOps == {"create_payment", "update_payment", "delete_payment"}
FeeRecordOps == {"create_fee_record", "update_fee_record"}

HTTP_200_OK == 200
HTTP_404_NOT_FOUND == 404
HTTP_400_BAD_REQUEST == 400

\* ------------------------------------------------------------ DayOfWeek enum
MONDAY == "monday"
TUESDAY == "tuesday"
WEDNESDAY == "wednesday"
THURSDAY == "thursday"
FRIDAY == "friday"
SATURDAY == "saturday"
SUNDAY == "sunday"

DayOfWeek == {MONDAY, TUESDAY, WEDNESDAY, THURSDAY, FRIDAY, SATURDAY, SUNDAY}

\* ------------------------------------------------- timetable request inputs
\* datetime.time values, whole hours counted from 08:00. The Time column and
\* the bound parameters compare in time-of-day order, as the integers do.
Times == 0..MaxTime
Days == {MONDAY, TUESDAY}
RoomNumbers == {"101", "102"}
SubjectIds == {1}
TeacherIds == {2}

\* The request sequences create one timetable; slot requests also name a
\* second one.
CreatedTimetableIds == {1}
TimetableIds == {1, 2}
TimetableSlotIds == 1..MaxTimetableSlots

TimetableCreate == {[name |-> "Grade 5 Timetable"]}

\* TimetableSlotCreate: start_time and end_time are two independent times;
\* no validator orders them.
TimetableSlotCreate ==
    [day : Days, start_time : Times, end_time : Times, room_number : {"101"},
     timetable_id : TimetableIds, subject_id : SubjectIds, teacher_id : TeacherIds]

\* TimetableSlotUpdate after dict(exclude_unset=True): the fields the request
\* sets. The schema has no timetable_id.
TimetableSlotUpdate ==
    {<<>>}
        \cup [day : Days]
        \cup [start_time : Times]
        \cup [end_time : Times]
        \cup [start_time : Times, end_time : Times]
        \cup [room_number : RoomNumbers]

VARIABLES
    fee_records,          \* table fee_records: id -> row
    payments,             \* table payments: id -> [amount, fee_record_id]
    initial_paid_amount,  \* id -> paid_amount of the request that created the row
    before,               \* the table a scenario's client read before its requests
    response,             \* what the last request returned: [op, code(, detail)]
    timetables,           \* table timetables: id -> row
    timetable_slots,      \* table timetable_slots: id -> row
    subjects,             \* table subjects: id -> row
    students,             \* table students: id -> row
    exams,                \* table exams: id -> row
    exam_results,         \* table exam_results: id -> row
    reports,              \* table reports: id -> row
    in_flight             \* handler -> the request it is in the middle of

\* The tables no fee or timetable request touches.
school == <<subjects, students, exams, exam_results, reports>>

vars == <<fee_records, payments, initial_paid_amount, before, response,
          timetables, timetable_slots, school, in_flight>>

\* Two requests can be in progress at once: a handler gives control away at
\* each await.
Handlers == {"h1", "h2"}

Idle == [pc |-> "idle"]

InitSchool ==
    /\ subjects = <<>>
    /\ students = <<>>
    /\ exams = <<>>
    /\ exam_results = <<>>
    /\ reports = <<>>

InitHandlers == in_flight = [h \in Handlers |-> Idle]

\* ---------------------------------------------------------------- helpers
Max(S) == CHOOSE x \in S : \A y \in S : y <= x

\* SQLite INTEGER PRIMARY KEY (the default engine): largest rowid plus one.
NewId(table) == IF DOMAIN table = {} THEN 1 ELSE Max(DOMAIN table) + 1

Insert(table, id, row) == [i \in DOMAIN table \cup {id} |-> IF i = id THEN row ELSE table[i]]

Delete(table, id) == [i \in DOMAIN table \ {id} |-> table[i]]

\* for field, value in update_data.items(): setattr(row, field, value)
SetAttrs(row, update_data) ==
    [f \in DOMAIN row |-> IF f \in DOMAIN update_data THEN update_data[f] ELSE row[f]]

RECURSIVE SumAmounts(_, _)
SumAmounts(table, ids) ==
    IF ids = {} THEN 0
    ELSE LET i == CHOOSE x \in ids : TRUE
         IN table[i].amount + SumAmounts(table, ids \ {i})

PaymentsOf(id) == {p \in DOMAIN payments : payments[p].fee_record_id = id}

\* ------------------------------------------- balance reconciliation blocks
\* Mutant: the balance is not recomputed after the payment is added.
create_payment_stale_balance(fee_record, amount) ==
    LET paid_amount == fee_record.paid_amount + amount
        balance == fee_record.balance
    IN  [fee_record EXCEPT
            !.paid_amount = paid_amount,
            !.status = IF balance <= 0 THEN PAID
                       ELSE IF paid_amount > 0 THEN PARTIALLY_PAID
                       ELSE @]

\* Mutant: PAID only when the record is overpaid (balance < 0).
create_payment_strict_paid(fee_record, amount) ==
    LET paid_amount == fee_record.paid_amount + amount
        balance == fee_record.total_amount - paid_amount
    IN  [fee_record EXCEPT
            !.paid_amount = paid_amount,
            !.balance = balance,
            !.status = IF balance < 0 THEN PAID
                       ELSE IF paid_amount > 0 THEN PARTIALLY_PAID
                       ELSE @]

\* create_payment: "Update fee record" and "Update status based on payment".
\* There is no else branch: the status stays when balance > 0 and paid <= 0.
create_payment_fee_record(fee_record, amount) ==
    LET paid_amount == fee_record.paid_amount + amount
        balance == fee_record.total_amount - paid_amount
    IN  [fee_record EXCEPT
            !.paid_amount = paid_amount,
            !.balance = balance,
            !.status = IF balance <= 0 THEN PAID
                       ELSE IF paid_amount > 0 THEN PARTIALLY_PAID
                       ELSE @]

\* Mutant: the original amount is not taken off before the new one is added.
update_payment_adds_amount(fee_record, original_amount, amount) ==
    LET paid_amount == fee_record.paid_amount + amount
        balance == fee_record.total_amount - paid_amount
    IN  [fee_record EXCEPT
            !.paid_amount = paid_amount,
            !.balance = balance,
            !.status = IF balance <= 0 THEN PAID
                       ELSE IF paid_amount > 0 THEN PARTIALLY_PAID
                       ELSE PENDING]

\* Mutant: an unpaid record is marked OVERDUE instead of PENDING.
update_payment_else_overdue(fee_record, original_amount, amount) ==
    LET paid_amount == fee_record.paid_amount - original_amount + amount
        balance == fee_record.total_amount - paid_amount
    IN  [fee_record EXCEPT
            !.paid_amount = paid_amount,
            !.balance = balance,
            !.status = IF balance <= 0 THEN PAID
                       ELSE IF paid_amount > 0 THEN PARTIALLY_PAID
                       ELSE OVERDUE]

\* update_payment: the block under "If amount was updated, update fee record".
update_payment_fee_record(fee_record, original_amount, amount) ==
    LET paid_amount == fee_record.paid_amount - original_amount + amount
        balance == fee_record.total_amount - paid_amount
    IN  [fee_record EXCEPT
            !.paid_amount = paid_amount,
            !.balance = balance,
            !.status = IF balance <= 0 THEN PAID
                       ELSE IF paid_amount > 0 THEN PARTIALLY_PAID
                       ELSE PENDING]

\* Mutant: the balance is recomputed but paid_amount keeps the deleted amount.
delete_payment_keeps_paid(fee_record, amount) ==
    LET paid_amount == fee_record.paid_amount
        balance == fee_record.total_amount - paid_amount
    IN  [fee_record EXCEPT
            !.balance = balance,
            !.status = IF paid_amount <= 0 THEN PENDING ELSE PARTIALLY_PAID]

\* Mutant: PENDING only when paid_amount falls below 0.
delete_payment_strict_pending(fee_record, amount) ==
    LET paid_amount == fee_record.paid_amount - amount
        balance == fee_record.total_amount - paid_amount
    IN  [fee_record EXCEPT
            !.paid_amount = paid_amount,
            !.balance = balance,
            !.status = IF paid_amount < 0 THEN PENDING ELSE PARTIALLY_PAID]

\* delete_payment: the block under "if fee_record:". PAID is never written.
delete_payment_fee_record(fee_record, amount) ==
    LET paid_amount == fee_record.paid_amount - amount
        balance == fee_record.total_amount - paid_amount
    IN  [fee_record EXCEPT
            !.paid_amount = paid_amount,
            !.balance = balance,
            !.status = IF paid_amount <= 0 THEN PENDING ELSE PARTIALLY_PAID]

\* Mutant: the comparison with the original amount is left out.
amount_in_update_data(update_data, original_amount) ==
    "amount" \in DOMAIN update_data

\* "amount" in update_data and update_data["amount"] != original_amount
amount_was_updated(update_data, original_amount) ==
    /\ "amount" \in DOMAIN update_data
    /\ update_data.amount # original_amount

\* ---------------------------------------------------------------- handlers
NoRoundTrip == <<>>

Init ==
    /\ fee_records = <<>>
    /\ payments = <<>>
    /\ initial_paid_amount = <<>>
    /\ before = NoRoundTrip
    /\ response = [op |-> "none", code |-> HTTP_200_OK]
    /\ timetables = <<>>
    /\ timetable_slots = <<>>
    /\ InitSchool
    /\ InitHandlers

create_fee_record(fee_record_in) ==
    LET id == NewId(fee_records)
    IN  /\ id <= MaxFeeRecords
        /\ fee_records' = Insert(fee_records, id, fee_record_in)
        /\ initial_paid_amount' = Insert(initial_paid_amount, id, fee_record_in.paid_amount)
        /\ response' = [op |-> "create_fee_record", code |-> HTTP_200_OK]
        /\ UNCHANGED <<payments, before, school, in_flight, timetables, timetable_slots>>

update_fee_record(fee_record_id, update_data) ==
    IF fee_record_id \notin DOMAIN fee_records
    THEN /\ response' = [op |-> "update_fee_record", code |-> HTTP_404_NOT_FOUND]
         /\ UNCHANGED <<fee_records, payments, initial_paid_amount, before, school, in_flight, timetables, timetable_slots>>
    ELSE /\ fee_records' = [fee_records EXCEPT
                                ![fee_record_id] = SetAttrs(@, update_data)]
         /\ response' = [op |-> "update_fee_record", code |-> HTTP_200_OK]
         /\ UNCHANGED <<payments, initial_paid_amount, before, school, in_flight, timetables, timetable_slots>>

\* Mutant: the payment is stored without looking the fee record up first.
create_payment_without_lookup(fee_record_id, amount) ==
    LET id == NewId(payments)
    IN  /\ id <= MaxPayments
        /\ payments' = Insert(payments, id,
                            [amount |-> amount, fee_record_id |-> fee_record_id])
        /\ fee_records' =
                IF fee_record_id \in DOMAIN fee_records
                THEN [fee_records EXCEPT
                        ![fee_record_id] = create_payment_fee_record(@, amount)]
                ELSE fee_records
        /\ response' = [op |-> "create_payment", code |-> HTTP_200_OK]
        /\ UNCHANGED <<initial_paid_amount, before, school, in_flight, timetables, timetable_slots>>

create_payment(fee_record_id, amount) ==
    IF fee_record_id \notin DOMAIN fee_records
    THEN /\ response' = [op |-> "create_payment", code |-> HTTP_404_NOT_FOUND]
         /\ UNCHANGED <<fee_records, payments, initial_paid_amount, before, school, in_flight, timetables, timetable_slots>>
    ELSE LET id == NewId(payments)
         IN  /\ id <= MaxPayments
             /\ payments' = Insert(payments, id,
                                [amount |-> amount, fee_record_id |-> fee_record_id])
             /\ fee_records' = [fee_records EXCEPT
                    ![fee_record_id] = create_payment_fee_record(@, amount)]
             /\ response' = [op |-> "create_payment", code |-> HTTP_200_OK]
             /\ UNCHANGED <<initial_paid_amount, before, school, in_flight, timetables, timetable_slots>>

update_payment(payment_id, update_data) ==
    IF payment_id \notin DOMAIN payments
    THEN /\ response' = [op |-> "update_payment", code |-> HTTP_404_NOT_FOUND]
         /\ UNCHANGED <<fee_records, payments, initial_paid_amount, before, school, in_flight, timetables, timetable_slots>>
    ELSE LET payment == payments[payment_id]
             original_amount == payment.amount
             updated == SetAttrs(payment, update_data)
         IN  /\ payments' = [payments EXCEPT ![payment_id] = updated]
             /\ fee_records' =
                    IF /\ amount_was_updated(update_data, original_amount)
                       /\ payment.fee_record_id \in DOMAIN fee_records
                    THEN [fee_records EXCEPT ![payment.fee_record_id] =
                            update_payment_fee_record(@, original_amount, updated.amount)]
                    ELSE fee_records
             /\ response' = [op |-> "update_payment", code |-> HTTP_200_OK]
             /\ UNCHANGED <<initial_paid_amount, before, school, in_flight, timetables, timetable_slots>>

\* Mutant: the delete of a payment that is not stored is answered 200.
delete_payment_idempotent(payment_id) ==
    IF payment_id \notin DOMAIN payments
    THEN /\ response' = [op |-> "delete_payment", code |-> HTTP_200_OK]
         /\ UNCHANGED <<fee_records, payments, initial_paid_amount, before, school, in_flight, timetables, timetable_slots>>
    ELSE LET payment == payments[payment_id]
         IN  /\ fee_records' =
                    IF payment.fee_record_id \in DOMAIN fee_records
                    THEN [fee_records EXCEPT ![payment.fee_record_id] =
                            delete_payment_fee_record(@, payment.amount)]
                    ELSE fee_records
             /\ payments' = Delete(payments, payment_id)
             /\ response' = [op |-> "delete_payment", code |-> HTTP_200_OK]
             /\ UNCHANGED <<initial_paid_amount, before, school, in_flight, timetables, timetable_slots>>

delete_payment(payment_id) ==
    IF payment_id \notin DOMAIN payments
    THEN /\ response' = [op |-> "delete_payment", code |-> HTTP_404_NOT_FOUND]
         /\ UNCHANGED <<fee_records, payments, initial_paid_amount, before, school, in_flight, timetables, timetable_slots>>
    ELSE LET payment == payments[payment_id]
         IN  /\ fee_records' =
                    IF payment.fee_record_id \in DOMAIN fee_records
                    THEN [fee_records EXCEPT ![payment.fee_record_id] =
                            delete_payment_fee_record(@, payment.amount)]
                    ELSE fee_records
             /\ payments' = Delete(payments, payment_id)
             /\ response' = [op |-> "delete_payment", code |-> HTTP_200_OK]
             /\ UNCHANGED <<initial_paid_amount, before, school, in_flight, timetables, timetable_slots>>

\* ----------------------------------------------------------- specifications
\* Every fee record and payment request of the API, one request at a time.
Next ==
    \/ \E fee_record_in \in FeeRecordCreate : create_fee_record(fee_record_in)
    \/ \E id \in FeeRecordIds, update_data \in FeeRecordUpdate :
            update_fee_record(id, update_data)
    \/ \E id \in FeeRecordIds, amount \in Amounts : create_payment(id, amount)
    \/ \E id \in PaymentIds, update_data \in PaymentUpdate :
            update_payment(id, update_data)
    \/ \E id \in PaymentIds : delete_payment(id)

Spec == Init /\ [][Next]_vars

\* Fee records that, once created, are touched by payment requests only.
NextPayments ==
    \/ \E fee_record_in \in FeeRecordCreate : create_fee_record(fee_record_in)
    \/ \E id \in FeeRecordIds, amount \in Amounts : create_payment(id, amount)
    \/ \E id \in PaymentIds, update_data \in PaymentUpdate :
            update_payment(id, update_data)
    \/ \E id \in PaymentIds : delete_payment(id)

SpecPayments == Init /\ [][NextPayments]_vars

\* A client reads a fee record, creates one payment on it and deletes that
\* payment again. The record it starts from has something to pay and is one
\* the reconciliation leaves behind: balance and status are what
\* update_payment derives. The payment has a positive amount.
Reconciled(fee_record) == fee_record = update_payment_fee_record(fee_record, 0, 0)

RoundTripAmounts == 1..(MaxTotal + MaxTotal)

RoundTripRecords ==
    {r \in [academic_year : AcademicYears, term : Terms,
            total_amount : 1..(MaxTotal + 1),
            paid_amount : 0..(MaxTotal + MaxTotal + 1),
            balance : (0 - MaxTotal - MaxTotal)..(MaxTotal + 1),
            status : PaymentStatus, due_date : DueDates,
            student_id : StudentIds, fee_structure_id : FeeStructureIds] :
        Reconciled(r)}

InitRoundTrip ==
    /\ \E r \in RoundTripRecords : fee_records = Insert(<<>>, 1, r)
    /\ payments = <<>>
    /\ initial_paid_amount = Insert(<<>>, 1, fee_records[1].paid_amount)
    /\ before = fee_records
    /\ response = [op |-> "get_fee_record", code |-> HTTP_200_OK]
    /\ timetables = <<>>
    /\ timetable_slots = <<>>
    /\ InitSchool
    /\ InitHandlers

NextRoundTrip ==
    \/ /\ response.op = "get_fee_record"
       /\ \E amount \in RoundTripAmounts : create_payment(1, amount)
    \/ /\ response.op = "create_payment"
       /\ delete_payment(Max(DOMAIN payments))

SpecRoundTrip == InitRoundTrip /\ [][NextRoundTrip]_vars

\* ------------------------------------------------------ timetable handlers
\* Mutant: the comparisons are not strict, so touching slots are selected.
create_conflicts_closed(slot_in) ==
    {id \in DOMAIN timetable_slots :
        /\ timetable_slots[id].timetable_id = slot_in.timetable_id
        /\ timetable_slots[id].day = slot_in.day
        /\ timetable_slots[id].start_time <= slot_in.end_time
        /\ timetable_slots[id].end_time >= slot_in.start_time}

\* Mutant: the day filter is left out of the query.
create_conflicts_any_day(slot_in) ==
    {id \in DOMAIN timetable_slots :
        /\ timetable_slots[id].timetable_id = slot_in.timetable_id
        /\ timetable_slots[id].start_time < slot_in.end_time
        /\ timetable_slots[id].end_time > slot_in.start_time}

\* Mutant: only existing slots that start inside the candidate are selected.
create_conflicts_starting_inside(slot_in) ==
    {id \in DOMAIN timetable_slots :
        /\ timetable_slots[id].timetable_id = slot_in.timetable_id
        /\ timetable_slots[id].day = slot_in.day
        /\ timetable_slots[id].start_time < slot_in.end_time
        /\ timetable_slots[id].start_time >= slot_in.start_time}

\* create_timetable_slot, "Check for time conflicts": the rows the query
\* selects.
create_timetable_slot_conflicts(slot_in) ==
    {id \in DOMAIN timetable_slots :
        /\ timetable_slots[id].timetable_id = slot_in.timetable_id
        /\ timetable_slots[id].day = slot_in.day
        /\ timetable_slots[id].start_time < slot_in.end_time
        /\ timetable_slots[id].end_time > slot_in.start_time}

\* Mutant: the slot being updated is not left out of the query.
update_conflicts_with_itself(slot_id, day, start_time, end_time) ==
    {id \in DOMAIN timetable_slots :
        /\ timetable_slots[id].timetable_id = timetable_slots[slot_id].timetable_id
        /\ timetable_slots[id].day = day
        /\ timetable_slots[id].start_time < end_time
        /\ timetable_slots[id].end_time > start_time}

\* Mutant: the query filters on the slot's stored day, not the day of the update.
update_conflicts_on_stored_day(slot_id, day, start_time, end_time) ==
    {id \in DOMAIN timetable_slots :
        /\ id # slot_id
        /\ timetable_slots[id].timetable_id = timetable_slots[slot_id].timetable_id
        /\ timetable_slots[id].day = timetable_slots[slot_id].day
        /\ timetable_slots[id].start_time < end_time
        /\ timetable_slots[id].end_time > start_time}

\* update_timetable_slot: the rows its conflict query selects for the slot's
\* own timetable, the slot itself left out.
update_timetable_slot_conflicts(slot_id, day, start_time, end_time) ==
    {id \in DOMAIN timetable_slots :
        /\ id # slot_id
        /\ timetable_slots[id].timetable_id = timetable_slots[slot_id].timetable_id
        /\ timetable_slots[id].day = day
        /\ timetable_slots[id].start_time < end_time
        /\ timetable_slots[id].end_time > start_time}

\* Mutant: the conflict check runs on every update.
conflicts_always_checked(update_data) == TRUE

\* if slot_in.day or slot_in.start_time or slot_in.end_time: enum members and
\* datetime.time values are all true, so the test is whether one is set.
time_is_being_updated(update_data) ==
    \/ "day" \in DOMAIN update_data
    \/ "start_time" \in DOMAIN update_data
    \/ "end_time" \in DOMAIN update_data

\* slot_in.<field> or slot.<field>
Or(update_data, slot, field) ==
    IF field \in DOMAIN update_data THEN update_data[field] ELSE slot[field]

create_timetable(timetable_in) ==
    LET id == NewId(timetables)
    IN  /\ id \in CreatedTimetableIds
        /\ timetables' = Insert(timetables, id, timetable_in)
        /\ response' = [op |-> "create_timetable", code |-> HTTP_200_OK]
        /\ UNCHANGED <<fee_records, payments, initial_paid_amount, before, school, in_flight,
                       timetable_slots>>

create_timetable_slot(slot_in) ==
    /\ UNCHANGED <<fee_records, payments, initial_paid_amount, before, school, in_flight, timetables>>
    /\ IF slot_in.timetable_id \notin DOMAIN timetables
       THEN /\ response' = [op |-> "create_timetable_slot",
                            code |-> HTTP_404_NOT_FOUND,
                            detail |-> "Timetable not found"]
            /\ UNCHANGED timetable_slots
       ELSE IF create_timetable_slot_conflicts(slot_in) # {}
       THEN /\ response' = [op |-> "create_timetable_slot",
                            code |-> HTTP_400_BAD_REQUEST,
                            detail |-> "Time slot conflicts with existing slots"]
            /\ UNCHANGED timetable_slots
       ELSE LET id == NewId(timetable_slots)
            IN  /\ id <= MaxTimetableSlots
                /\ timetable_slots' = Insert(timetable_slots, id, slot_in)
                /\ response' = [op |-> "create_timetable_slot", code |-> HTTP_200_OK]

update_timetable_slot(slot_id, update_data) ==
    /\ UNCHANGED <<fee_records, payments, initial_paid_amount, before, school, in_flight, timetables>>
    /\ IF slot_id \notin DOMAIN timetable_slots
       THEN /\ response' = [op |-> "update_timetable_slot",
                            code |-> HTTP_404_NOT_FOUND,
                            detail |-> "Timetable slot not found"]
            /\ UNCHANGED timetable_slots
       ELSE LET slot == timetable_slots[slot_id]
                day == Or(update_data, slot, "day")
                start_time == Or(update_data, slot, "start_time")
                end_time == Or(update_data, slot, "end_time")
            IN  IF /\ time_is_being_updated(update_data)
                   /\ update_timetable_slot_conflicts(slot_id, day, start_time,
                                                      end_time) # {}
                THEN /\ response' = [op |-> "update_timetable_slot",
                                     code |-> HTTP_400_BAD_REQUEST,
                                     detail |-> "Time slot conflicts with existing slots"]
                     /\ UNCHANGED timetable_slots
                ELSE /\ timetable_slots' = [timetable_slots EXCEPT
                                                ![slot_id] = SetAttrs(@, update_data)]
                     /\ response' = [op |-> "update_timetable_slot",
                                     code |-> HTTP_200_OK]

delete_timetable_slot(slot_id) ==
    /\ UNCHANGED <<fee_records, payments, initial_paid_amount, before, school, in_flight, timetables>>
    /\ IF slot_id \notin DOMAIN timetable_slots
       THEN /\ response' = [op |-> "delete_timetable_slot",
                            code |-> HTTP_404_NOT_FOUND,
                            detail |-> "Timetable slot not found"]
            /\ UNCHANGED timetable_slots
       ELSE /\ timetable_slots' = Delete(timetable_slots, slot_id)
            /\ response' = [op |-> "delete_timetable_slot", code |-> HTTP_200_OK]

\* Timetables and their slots, one request at a time. The updates of these
\* sequences leave room_number alone.
RescheduleUpdate == {u \in TimetableSlotUpdate : "room_number" \notin DOMAIN u}

NextTimetable ==
    \/ \E timetable_in \in TimetableCreate : create_timetable(timetable_in)
    \/ \E slot_in \in TimetableSlotCreate : create_timetable_slot(slot_in)
    \/ \E slot_id \in TimetableSlotIds, update_data \in RescheduleUpdate :
            update_timetable_slot(slot_id, update_data)
    \/ \E slot_id \in TimetableSlotIds : delete_timetable_slot(slot_id)

SpecTimetable == Init /\ [][NextTimetable]_vars

\* A client lists the slots of two timetables and sends one slot request.
\* The stored slots cover some time, and the first is on timetable 1 on
\* Monday. Two of them may overlap: create_timetable_slot runs its conflict
\* query and its insert as separate awaited statements, so two concurrent
\* requests can both pass the query before either commits.
StoredSlots == {slot \in TimetableSlotCreate : slot.start_time < slot.end_time}

SlotTables ==
    {table \in UNION {[1..n -> StoredSlots] : n \in 1..MaxTimetableSlots} :
        table[1].timetable_id = 1 /\ table[1].day = MONDAY}

InitSlotRequest ==
    /\ fee_records = <<>>
    /\ payments = <<>>
    /\ initial_paid_amount = <<>>
    /\ timetables = [id \in TimetableIds |-> CHOOSE t \in TimetableCreate : TRUE]
    /\ timetable_slots \in SlotTables
    /\ before = timetable_slots
    /\ response = [op |-> "get_timetable_slots", code |-> HTTP_200_OK]
    /\ InitSchool
    /\ InitHandlers

NextSlotRequest ==
    \/ /\ response.op = "get_timetable_slots"
       /\ \E slot_in \in TimetableSlotCreate : create_timetable_slot(slot_in)
    \/ /\ response.op = "get_timetable_slots"
       /\ \E slot_id \in TimetableSlotIds, update_data \in TimetableSlotUpdate :
            update_timetable_slot(slot_id, update_data)

SpecSlotRequest == InitSlotRequest /\ [][NextSlotRequest]_vars

\* A client reads fee record 1 and sends create_payment requests that name it
\* or a fee record that is not stored.
RequestedFeeRecordIds == 1..(MaxFeeRecords + 1)

NextCreatePayment ==
    \E fee_record_id \in RequestedFeeRecordIds, amount \in Amounts :
        create_payment(fee_record_id, amount)

SpecCreatePayment == InitRoundTrip /\ [][NextCreatePayment]_vars

\* ------------------------------------------- subject and student handlers
fee_domain == <<fee_records, payments, initial_paid_amount, before>>

timetable_domain == <<timetables, timetable_slots>>

MaxSubjects == 2        \* subjects stored at once
MaxStudents == 2        \* students stored at once

\* An exception no handler catches: the framework answers 500.
HTTP_500_INTERNAL_SERVER_ERROR == 500

\* SubjectBase.code and StudentBase.student_id are plain str fields: the
\* empty string is a value a request can carry.
SubjectCodes == {"", "MATH101", "ENG101"}
SubjectNames == {"Mathematics", "English"}
StudentNumbers == {"", "S001", "S002"}
FirstNames == {"Asha", "Ravi"}

SubjectRowIds == 1..MaxSubjects
StudentRowIds == 1..MaxStudents

SubjectCreate == [code : SubjectCodes, name : {"Mathematics"}]

\* SubjectUpdate after dict(exclude_unset=True): the fields the request sets.
SubjectUpdate == {<<>>} \cup [code : SubjectCodes] \cup [name : SubjectNames]

StudentCreate == [student_id : StudentNumbers, first_name : {"Asha"}]

\* StudentUpdate after dict(exclude_unset=True): the fields the request sets.
StudentUpdate == {<<>>} \cup [student_id : StudentNumbers] \cup [first_name : FirstNames]

\* Truth value of a str or None in an if: false for None and for "".
Truthy(update_data, field) == field \in DOMAIN update_data /\ update_data[field] # ""

\* Column(String, unique=True): the index the commit checks.
Unique(table, column) ==
    \A i, j \in DOMAIN table : table[i][column] = table[j][column] => i = j

\* select(Subject).where(Subject.code == code)
subjects_with_code(code) == {id \in DOMAIN subjects : subjects[id].code = code}

\* select(Student).where(Student.student_id == student_id)
students_with_student_id(student_id) ==
    {id \in DOMAIN students : students[id].student_id = student_id}

create_subject(subject_in) ==
    /\ UNCHANGED <<fee_domain, timetable_domain, students, exams, exam_results,
                   reports, in_flight>>
    /\ IF subjects_with_code(subject_in.code) # {}
       THEN /\ response' = [op |-> "create_subject", code |-> HTTP_400_BAD_REQUEST]
            /\ UNCHANGED subjects
       ELSE LET id == NewId(subjects)
            IN  /\ id <= MaxSubjects
                /\ subjects' = Insert(subjects, id, subject_in)
                /\ response' = [op |-> "create_subject", code |-> HTTP_200_OK]

\* "if subject_in.code and subject_in.code != subject.code"
code_is_being_changed(update_data, subject) ==
    /\ Truthy(update_data, "code")
    /\ update_data.code # subject.code

update_subject(subject_id, update_data) ==
    /\ UNCHANGED <<fee_domain, timetable_domain, students, exams, exam_results,
                   reports, in_flight>>
    /\ IF subject_id \notin DOMAIN subjects
       THEN /\ response' = [op |-> "update_subject", code |-> HTTP_404_NOT_FOUND]
            /\ UNCHANGED subjects
       ELSE IF /\ code_is_being_changed(update_data, subjects[subject_id])
               /\ subjects_with_code(update_data.code) # {}
       THEN /\ response' = [op |-> "update_subject", code |-> HTTP_400_BAD_REQUEST]
            /\ UNCHANGED subjects
       ELSE LET updated == [subjects EXCEPT ![subject_id] = SetAttrs(@, update_data)]
            IN  IF Unique(updated, "code")
                THEN /\ subjects' = updated
                     /\ response' = [op |-> "update_subject", code |-> HTTP_200_OK]
                ELSE \* IntegrityError out of db.commit(); nothing is stored
                     /\ response' = [op |-> "update_subject",
                                     code |-> HTTP_500_INTERNAL_SERVER_ERROR]
                     /\ UNCHANGED subjects

delete_subject(subject_id) ==
    /\ UNCHANGED <<fee_domain, timetable_domain, students, exams, exam_results,
                   reports, in_flight>>
    /\ IF subject_id \notin DOMAIN subjects
       THEN /\ response' = [op |-> "delete_subject", code |-> HTTP_404_NOT_FOUND]
            /\ UNCHANGED subjects
       ELSE /\ subjects' = Delete(subjects, subject_id)
            /\ response' = [op |-> "delete_subject", code |-> HTTP_200_OK]

\* Subjects, one request at a time.
NextSubjects ==
    \/ \E subject_in \in SubjectCreate : create_subject(subject_in)
    \/ \E subject_id \in SubjectRowIds, update_data \in SubjectUpdate :
            update_subject(subject_id, update_data)
    \/ \E subject_id \in SubjectRowIds : delete_subject(subject_id)

SpecSubjects == Init /\ [][NextSubjects]_vars

create_student(student_in) ==
    /\ UNCHANGED <<fee_domain, timetable_domain, subjects, exams, exam_results,
                   reports, in_flight>>
    /\ IF students_with_student_id(student_in.student_id) # {}
       THEN /\ response' = [op |-> "create_student", code |-> HTTP_400_BAD_REQUEST]
            /\ UNCHANGED students
       ELSE LET id == NewId(students)
            IN  /\ id <= MaxStudents
                /\ students' = Insert(students, id, student_in)
                /\ response' = [op |-> "create_student", code |-> HTTP_200_OK]

\* update_student runs no query on student_id before it commits.
update_student(student_id, update_data) ==
    /\ UNCHANGED <<fee_domain, timetable_domain, subjects, exams, exam_results,
                   reports, in_flight>>
    /\ IF student_id \notin DOMAIN students
       THEN /\ response' = [op |-> "update_student", code |-> HTTP_404_NOT_FOUND]
            /\ UNCHANGED students
       ELSE LET updated == [students EXCEPT ![student_id] = SetAttrs(@, update_data)]
            IN  IF Unique(updated, "student_id")
                THEN /\ students' = updated
                     /\ response' = [op |-> "update_student", code |-> HTTP_200_OK]
                ELSE \* IntegrityError out of db.commit(); nothing is stored
                     /\ response' = [op |-> "update_student",
                                     code |-> HTTP_500_INTERNAL_SERVER_ERROR]
                     /\ UNCHANGED students

delete_student(student_id) ==
    /\ UNCHANGED <<fee_domain, timetable_domain, subjects, exams, exam_results,
                   reports, in_flight>>
    /\ IF student_id \notin DOMAIN students
       THEN /\ response' = [op |-> "delete_student", code |-> HTTP_404_NOT_FOUND]
            /\ UNCHANGED students
       ELSE /\ students' = Delete(students, student_id)
            /\ response' = [op |-> "delete_student", code |-> HTTP_200_OK]

\* Students, one request at a time.
NextStudents ==
    \/ \E student_in \in StudentCreate : create_student(student_in)
    \/ \E student_id \in StudentRowIds, update_data \in StudentUpdate :
            update_student(student_id, update_data)
    \/ \E student_id \in StudentRowIds : delete_student(student_id)

SpecStudents == Init /\ [][NextStudents]_vars

\* ----------------------------------------------- handlers that interleave
\* Each request has an AsyncSession of its own; a handler gives control away
\* at every await, and the statement it awaits runs against the one store.
\* The store adds no isolation. "pending" records, for the handler that has
\* just run its select, the handlers whose select has run and whose commit
\* has not.
Pending == {g \in Handlers : in_flight[g].pc = "selected"}

\* The UPDATE a flush emits sets the columns whose value in the session
\* differs from the value the session loaded.
Flush(row, loaded, current) ==
    [f \in DOMAIN row |-> IF current[f] # loaded[f] THEN current[f] ELSE row[f]]

\* Mutant: the handler reads the row again when it commits.
fee_record_read_at_commit(h) == fee_records[in_flight[h].fee_record_id]

\* fee_record = result.scalars().first(): the object the session loaded.
fee_record_of_session(h) == in_flight[h].fee_record

\* create_payment up to the result of its select.
create_payment_select(h, fee_record_id, amount) ==
    /\ in_flight[h] = Idle
    /\ UNCHANGED <<fee_domain, timetable_domain, school>>
    /\ IF fee_record_id \notin DOMAIN fee_records
       THEN /\ in_flight' = [in_flight EXCEPT ![h] =
                                [pc |-> "done", code |-> HTTP_404_NOT_FOUND]]
            /\ response' = [op |-> "create_payment", code |-> HTTP_404_NOT_FOUND]
       ELSE /\ in_flight' = [in_flight EXCEPT ![h] =
                                [pc |-> "selected",
                                 fee_record_id |-> fee_record_id,
                                 amount |-> amount,
                                 fee_record |-> fee_records[fee_record_id],
                                 pending |-> Pending]]
            /\ UNCHANGED response

\* create_payment from db.add(payment) to the commit.
create_payment_commit(h) ==
    /\ in_flight[h].pc = "selected"
    /\ "amount" \in DOMAIN in_flight[h]
    /\ LET request == in_flight[h]
           id == NewId(payments)
           loaded == fee_record_of_session(h)
           current == create_payment_fee_record(loaded, request.amount)
       IN  /\ id <= MaxPayments
           /\ payments' = Insert(payments, id,
                            [amount |-> request.amount,
                             fee_record_id |-> request.fee_record_id])
           /\ fee_records' = [fee_records EXCEPT
                    ![request.fee_record_id] = Flush(@, loaded, current)]
           /\ in_flight' = [in_flight EXCEPT ![h] =
                    [pc |-> "done", code |-> HTTP_200_OK,
                     fee_record_id |-> request.fee_record_id,
                     amount |-> request.amount,
                     pending |-> request.pending]]
           /\ response' = [op |-> "create_payment", code |-> HTTP_200_OK]
    /\ UNCHANGED <<initial_paid_amount, before, timetable_domain, school>>

\* Two create_payment requests at once, on the fee record a client has read
\* or on one that is not stored.
NextConcurrentPayments ==
    \/ \E h \in Handlers, fee_record_id \in RequestedFeeRecordIds, amount \in Amounts :
            create_payment_select(h, fee_record_id, amount)
    \/ \E h \in Handlers : create_payment_commit(h)

SpecConcurrentPayments == InitRoundTrip /\ [][NextConcurrentPayments]_vars

\* Mutant: the conflict query is evaluated again when the handler commits.
conflicts_at_commit(h) == create_timetable_slot_conflicts(in_flight[h].slot_in)

\* conflicts = result.scalars().all(): the rows the handler's query returned.
conflicts_of_query(h) == in_flight[h].conflicts

\* create_timetable_slot up to the result of its conflict query.
create_timetable_slot_select(h, slot_in) ==
    /\ in_flight[h] = Idle
    /\ UNCHANGED <<fee_domain, timetable_domain, school>>
    /\ IF slot_in.timetable_id \notin DOMAIN timetables
       THEN /\ in_flight' = [in_flight EXCEPT ![h] =
                                [pc |-> "done", code |-> HTTP_404_NOT_FOUND]]
            /\ response' = [op |-> "create_timetable_slot",
                            code |-> HTTP_404_NOT_FOUND,
                            detail |-> "Timetable not found"]
       ELSE /\ in_flight' = [in_flight EXCEPT ![h] =
                                [pc |-> "selected",
                                 slot_in |-> slot_in,
                                 conflicts |-> create_timetable_slot_conflicts(slot_in),
                                 pending |-> Pending]]
            /\ UNCHANGED response

\* create_timetable_slot from "if conflicts:" to the commit.
create_timetable_slot_commit(h) ==
    /\ in_flight[h].pc = "selected"
    /\ "slot_in" \in DOMAIN in_flight[h]
    /\ UNCHANGED <<fee_domain, timetables, school>>
    /\ LET request == in_flight[h]
       IN  IF conflicts_of_query(h) # {}
           THEN /\ in_flight' = [in_flight EXCEPT ![h] =
                        [pc |-> "done", code |-> HTTP_400_BAD_REQUEST,
                         slot_in |-> request.slot_in, pending |-> request.pending]]
                /\ response' = [op |-> "create_timetable_slot",
                                code |-> HTTP_400_BAD_REQUEST,
                                detail |-> "Time slot conflicts with existing slots"]
                /\ UNCHANGED timetable_slots
           ELSE LET id == NewId(timetable_slots)
                IN  /\ id <= MaxTimetableSlots
                    /\ timetable_slots' = Insert(timetable_slots, id, request.slot_in)
                    /\ in_flight' = [in_flight EXCEPT ![h] =
                            [pc |-> "done", code |-> HTTP_200_OK, id |-> id,
                             slot_in |-> request.slot_in, pending |-> request.pending]]
                    /\ response' = [op |-> "create_timetable_slot",
                                    code |-> HTTP_200_OK]

\* A client has created timetable 1 and listed its slots: there are none.
InitConcurrentSlots ==
    /\ fee_records = <<>>
    /\ payments = <<>>
    /\ initial_paid_amount = <<>>
    /\ timetables = [id \in CreatedTimetableIds |-> CHOOSE t \in TimetableCreate : TRUE]
    /\ timetable_slots = <<>>
    /\ before = timetable_slots
    /\ response = [op |-> "get_timetable_slots", code |-> HTTP_200_OK]
    /\ InitSchool
    /\ InitHandlers

\* Two create_timetable_slot requests at once.
NextConcurrentSlots ==
    \/ \E h \in Handlers, slot_in \in TimetableSlotCreate :
            create_timetable_slot_select(h, slot_in)
    \/ \E h \in Handlers : create_timetable_slot_commit(h)

SpecConcurrentSlots == InitConcurrentSlots /\ [][NextConcurrentSlots]_vars

\* ------------------------------------------------------- delete_fee_record
\* Mutant: the relationship is passive (no payment is loaded or blanked).
fee_record_payments_passive(fee_record_id) == {}

\* FeeRecord.payments has no delete cascade: the flush of the delete loads the
\* record's payments and sets their fee_record_id to NULL.
fee_record_payments(fee_record_id) == PaymentsOf(fee_record_id)

delete_fee_record(fee_record_id) ==
    IF fee_record_id \notin DOMAIN fee_records
    THEN /\ response' = [op |-> "delete_fee_record", code |-> HTTP_404_NOT_FOUND]
         /\ UNCHANGED <<fee_records, payments, initial_paid_amount, before, school, in_flight, timetables, timetable_slots>>
    ELSE IF fee_record_payments(fee_record_id) # {}
    THEN \* payments.fee_record_id is NOT NULL: IntegrityError out of db.commit()
         /\ response' = [op |-> "delete_fee_record",
                         code |-> HTTP_500_INTERNAL_SERVER_ERROR]
         /\ UNCHANGED <<fee_records, payments, initial_paid_amount, before, school, in_flight, timetables, timetable_slots>>
    ELSE /\ fee_records' = Delete(fee_records, fee_record_id)
         /\ initial_paid_amount' = Delete(initial_paid_amount, fee_record_id)
         /\ response' = [op |-> "delete_fee_record", code |-> HTTP_200_OK]
         /\ UNCHANGED <<payments, before, school, in_flight, timetables, timetable_slots>>

\* A client reads fee record 1; payment requests and delete_fee_record
\* requests follow, and a deleted record is created again as it was read.
NextFeeAccount ==
    \/ \E fee_record_id \in RequestedFeeRecordIds, amount \in Amounts :
            create_payment(fee_record_id, amount)
    \/ \E id \in PaymentIds, update_data \in PaymentUpdate :
            update_payment(id, update_data)
    \/ \E id \in PaymentIds : delete_payment(id)
    \/ \E fee_record_id \in RequestedFeeRecordIds : delete_fee_record(fee_record_id)
    \/ create_fee_record(before[1])

SpecFeeAccount == InitRoundTrip /\ [][NextFeeAccount]_vars

\* ---------------------------------------------------- exam result handlers
MaxExamResults == 2     \* exam results stored at once

None == "None"

\* The request sequences create one exam; result requests also name a second.
CreatedExamIds == {1}
ExamIds == {1, 2}
ExamCreate == {[name |-> "Midterm"]}
Scores == {40, 90}
Grades == {"A"}
ExamStudentIds == {1, 2}
ExamResultIds == 1..MaxExamResults

\* ExamResultCreate.dict(): grade is None unless the request sets it.
ExamResultCreate ==
    [score : Scores, grade : {None}, student_id : ExamStudentIds,
     exam_id : ExamIds, subject_id : SubjectIds]

\* The JSON body of a PUT: the fields a client sends, known to the schema or
\* not.
ExamResultUpdateBody ==
    {<<>>}
        \cup [score : Scores]
        \cup [grade : Grades]
        \cup [student_id : ExamStudentIds]
        \cup [score : Scores, exam_id : ExamIds]

ExamResultUpdate == {"score", "grade", "remarks"}

\* Schema(**body).dict(exclude_unset=True): the fields of the body that the
\* schema declares; a field it does not declare is ignored.
exclude_unset(body, schema) == [f \in DOMAIN body \cap schema |-> body[f]]

create_exam(exam_in) ==
    LET id == NewId(exams)
    IN  /\ id \in CreatedExamIds
        /\ exams' = Insert(exams, id, exam_in)
        /\ response' = [op |-> "create_exam", code |-> HTTP_200_OK]
        /\ UNCHANGED <<fee_domain, timetable_domain, subjects, students,
                       exam_results, reports, in_flight>>

\* Mutant: the query also compares the score.
existing_result_with_score(result_in) ==
    {id \in DOMAIN exam_results :
        /\ exam_results[id].student_id = result_in.student_id
        /\ exam_results[id].exam_id = result_in.exam_id
        /\ exam_results[id].subject_id = result_in.subject_id
        /\ exam_results[id].score = result_in.score}

\* "Check if result already exists for this student, exam, and subject"
existing_result(result_in) ==
    {id \in DOMAIN exam_results :
        /\ exam_results[id].student_id = result_in.student_id
        /\ exam_results[id].exam_id = result_in.exam_id
        /\ exam_results[id].subject_id = result_in.subject_id}

create_exam_result(result_in) ==
    /\ UNCHANGED <<fee_domain, timetable_domain, subjects, students, exams,
                   reports, in_flight>>
    /\ IF result_in.exam_id \notin DOMAIN exams
       THEN /\ response' = [op |-> "create_exam_result", code |-> HTTP_404_NOT_FOUND]
            /\ UNCHANGED exam_results
       ELSE IF existing_result(result_in) # {}
       THEN /\ response' = [op |-> "create_exam_result", code |-> HTTP_400_BAD_REQUEST]
            /\ UNCHANGED exam_results
       ELSE LET id == NewId(exam_results)
            IN  /\ id <= MaxExamResults
                /\ exam_results' = Insert(exam_results, id, result_in)
                /\ response' = [op |-> "create_exam_result", code |-> HTTP_200_OK]

update_exam_result(result_id, body) ==
    /\ UNCHANGED <<fee_domain, timetable_domain, subjects, students, exams,
                   reports, in_flight>>
    /\ IF result_id \notin DOMAIN exam_results
       THEN /\ response' = [op |-> "update_exam_result", code |-> HTTP_404_NOT_FOUND]
            /\ UNCHANGED exam_results
       ELSE LET update_data == exclude_unset(body, ExamResultUpdate)
            IN  /\ exam_results' = [exam_results EXCEPT
                                        ![result_id] = SetAttrs(@, update_data)]
                /\ response' = [op |-> "update_exam_result", code |-> HTTP_200_OK]

delete_exam_result(result_id) ==
    /\ UNCHANGED <<fee_domain, timetable_domain, subjects, students, exams,
                   reports, in_flight>>
    /\ IF result_id \notin DOMAIN exam_results
       THEN /\ response' = [op |-> "delete_exam_result", code |-> HTTP_404_NOT_FOUND]
            /\ UNCHANGED exam_results
       ELSE /\ exam_results' = Delete(exam_results, result_id)
            /\ response' = [op |-> "delete_exam_result", code |-> HTTP_200_OK]

\* One exam and its results, one request at a time.
NextExamResults ==
    \/ \E exam_in \in ExamCreate : create_exam(exam_in)
    \/ \E result_in \in ExamResultCreate : create_exam_result(result_in)
    \/ \E result_id \in ExamResultIds, body \in ExamResultUpdateBody :
            update_exam_result(result_id, body)
    \/ \E result_id \in ExamResultIds : delete_exam_result(result_id)

SpecExamResults == Init /\ [][NextExamResults]_vars

\* ---------------------------------------------------------- report handlers
MaxReports == 1         \* reports stored at once

\* datetime values by year, month, day and hour; January, February and
\* December of a common year and of a leap year.
Years == {2023, 2024}
Months == {1, 2, 12}
Hours == {0, 15}

\* The day range datetime.replace accepts for a month.
DaysInMonth(year, month) ==
    IF month = 2
    THEN IF year % 4 = 0 /\ (year % 100 # 0 \/ year % 400 = 0) THEN 29 ELSE 28
    ELSE IF month \in {4, 6, 9, 11} THEN 30 ELSE 31

\* The values datetime.now() returns.
Now ==
    {t \in [year : Years, month : Months, day : 1..31, hour : Hours] :
        t.day <= DaysInMonth(t.year, t.month)}

\* None in a DateTime column: no datetime has a day 0.
NoDatetime == [year |-> 0, month |-> 0, day |-> 0, hour |-> 0]

Frequencies == {None, "daily", "weekly", "monthly"}
ReportIds == 1..MaxReports

\* ReportCreate.dict(): next_run is None unless the request sets it.
ReportCreate ==
    [is_scheduled : BOOLEAN, schedule_frequency : Frequencies,
     next_run : {NoDatetime}]

create_report(report_in) ==
    LET id == NewId(reports)
        report == [is_scheduled |-> report_in.is_scheduled,
                   schedule_frequency |-> report_in.schedule_frequency,
                   last_run |-> NoDatetime,
                   next_run |-> report_in.next_run]
    IN  /\ id <= MaxReports
        /\ reports' = Insert(reports, id, report)
        /\ response' = [op |-> "create_report", code |-> HTTP_200_OK]
        /\ UNCHANGED <<fee_domain, timetable_domain, subjects, students, exams,
                       exam_results, in_flight>>

\* datetime.now().replace(hour=0, minute=0, second=0, microsecond=0)
midnight(now) == [now EXCEPT !.hour = 0]

\* The branches under "if report.is_scheduled and report.schedule_frequency":
\* the arguments of the last replace(), or no datetime where no branch is
\* taken.
next_run_replace(report, now) ==
    LET next_run == midnight(now)
    IN  IF report.schedule_frequency = "daily"
        THEN [next_run EXCEPT !.day = next_run.day + 1]
        ELSE IF report.schedule_frequency = "weekly"
        THEN [next_run EXCEPT !.day = next_run.day + 7]
        ELSE IF report.schedule_frequency = "monthly"
        THEN IF next_run.month + 1 > 12
             THEN [next_run EXCEPT !.year = next_run.year + 1, !.month = 1, !.day = 1]
             ELSE [next_run EXCEPT !.month = next_run.month + 1, !.day = 1]
        ELSE NoDatetime

\* replace() raises ValueError for a day the month does not have.
ValueError(t) == t # NoDatetime /\ t.day > DaysInMonth(t.year, t.month)

run_report(report_id, now) ==
    /\ UNCHANGED <<fee_domain, timetable_domain, subjects, students, exams,
                   exam_results, in_flight>>
    /\ IF report_id \notin DOMAIN reports
       THEN /\ response' = [op |-> "run_report", code |-> HTTP_404_NOT_FOUND]
            /\ UNCHANGED reports
       ELSE LET report == reports[report_id]
                scheduled == report.is_scheduled /\ report.schedule_frequency # None
                next_run == IF scheduled THEN next_run_replace(report, now)
                            ELSE NoDatetime
            IN  IF ValueError(next_run)
                THEN \* the exception leaves the handler before db.commit()
                     /\ response' = [op |-> "run_report",
                                     code |-> HTTP_500_INTERNAL_SERVER_ERROR]
                     /\ UNCHANGED reports
                ELSE /\ reports' = [reports EXCEPT ![report_id] =
                            [@ EXCEPT !.last_run = now,
                                      !.next_run = IF next_run = NoDatetime THEN @
                                                   ELSE next_run]]
                     /\ response' = [op |-> "run_report", code |-> HTTP_200_OK]

\* A report is created and run on any date.
NextReports ==
    \/ \E report_in \in ReportCreate : create_report(report_in)
    \/ \E report_id \in ReportIds, now \in Now : run_report(report_id, now)

SpecReports == Init /\ [][NextReports]_vars

\* --------------------------------------------- update requests as sent
\* The JSON body of a PUT /payments/{id}: amount, the owner reference, or
\* both.
PaymentUpdateBody ==
    {<<>>}
        \cup [amount : Amounts]
        \cup [fee_record_id : RequestedFeeRecordIds]
        \cup [amount : Amounts, fee_record_id : RequestedFeeRecordIds]

\* The JSON body of a PUT /timetables/slots/{id}.
TimetableSlotUpdateBody ==
    {<<>>}
        \cup [start_time : Times, end_time : Times]
        \cup [room_number : RoomNumbers]
        \cup [timetable_id : TimetableIds]
        \cup [day : Days, timetable_id : TimetableIds]

\* Mutant: the schema declares the owner reference.
PaymentUpdateSchema_with_owner ==
    {"amount", "payment_date", "payment_method", "transaction_id",
     "receipt_number", "notes", "fee_record_id"}

\* The fields PaymentUpdate declares.
PaymentUpdateSchema ==
    {"amount", "payment_date", "payment_method", "transaction_id",
     "receipt_number", "notes"}

\* The fields TimetableSlotUpdate declares.
TimetableSlotUpdateSchema ==
    {"day", "start_time", "end_time", "room_number", "subject_id", "teacher_id"}

\* A client has listed the one slot stored and fee record 1, which has one
\* payment of 1.
InitOwnerFrame ==
    /\ fee_records = Insert(<<>>, 1, create_payment_fee_record(
            [academic_year |-> "2024-2025", term |-> "Term 1",
             total_amount |-> MaxTotal, paid_amount |-> 0, balance |-> MaxTotal,
             status |-> PENDING, due_date |-> "2025-01-31",
             student_id |-> 1, fee_structure_id |-> 1], 1))
    /\ payments = Insert(<<>>, 1, [amount |-> 1, fee_record_id |-> 1])
    /\ initial_paid_amount = Insert(<<>>, 1, 0)
    /\ timetables = [id \in TimetableIds |-> CHOOSE t \in TimetableCreate : TRUE]
    /\ \E slot \in StoredSlots : timetable_slots = Insert(<<>>, 1, slot)
    /\ before = timetable_slots
    /\ response = [op |-> "get_timetable_slots", code |-> HTTP_200_OK]
    /\ InitSchool
    /\ InitHandlers

\* Update requests only, each parsed by the schema of its handler.
NextOwnerFrame ==
    \/ \E id \in PaymentIds, body \in PaymentUpdateBody :
            update_payment(id, exclude_unset(body, PaymentUpdateSchema))
    \/ \E slot_id \in TimetableSlotIds, body \in TimetableSlotUpdateBody :
            update_timetable_slot(slot_id, exclude_unset(body, TimetableSlotUpdateSchema))

SpecOwnerFrame == InitOwnerFrame /\ [][NextOwnerFrame]_vars

\* ------------------------------------------------------------------ claims
Ok(op) == response'.op = op /\ response'.code = HTTP_200_OK

Balanced(fee_record) ==
    fee_record.balance = fee_record.total_amount - fee_record.paid_amount

\* The status derivation table: PAID, then PARTIALLY_PAID, then PENDING.
Derived(fee_record) ==
    IF fee_record.balance <= 0 THEN PAID
    ELSE IF fee_record.paid_amount > 0 THEN PARTIALLY_PAID
    ELSE PENDING

\* The fee records that own a payment before or after the step.
Owners == {payments[p].fee_record_id : p \in DOMAIN payments}
            \cup {payments'[p].fee_record_id : p \in DOMAIN payments'}

\* C1: a fee record created with paid_amount 0 satisfies
\* balance = total_amount - paid_amount after every payment request
\* (create, update, delete) applied to it.
C1_BalanceAfterEveryPaymentEvent ==
    [][\A op \in PaymentOps : Ok(op) =>
         \A id \in Owners :
            initial_paid_amount[id] = 0 => Balanced(fee_records'[id])]_vars

C1_Witness ==
    /\ response = [op |-> "delete_payment", code |-> HTTP_200_OK]
    /\ \E id \in DOMAIN fee_records :
        /\ initial_paid_amount[id] = 0
        /\ PaymentsOf(id) # {}
        /\ fee_records[id].paid_amount > 0
        /\ Balanced(fee_records[id])

\* C2: in every state reachable through the API every fee record satisfies
\* balance = total_amount - paid_amount, whichever request set paid_amount.
C2_BalanceAfterEveryMutation ==
    \A id \in DOMAIN fee_records : Balanced(fee_records[id])

\* C3: a fee record touched by payment requests only has
\* paid_amount = its initial paid_amount + the sum of its stored payments.
C3_PaidIsInitialPlusPayments ==
    \A id \in DOMAIN fee_records :
        fee_records[id].paid_amount =
            initial_paid_amount[id] + SumAmounts(payments, PaymentsOf(id))

C3_Witness ==
    /\ response = [op |-> "delete_payment", code |-> HTTP_200_OK]
    /\ \E id \in DOMAIN fee_records :
        /\ initial_paid_amount[id] = 1
        /\ PaymentsOf(id) # {}
        /\ fee_records[id].paid_amount = 2

\* C4: create_payment(X) followed by delete_payment of that payment returns
\* the fee record's paid_amount and status to the values read before.
C4_RoundTrip ==
    response.op = "delete_payment" =>
        /\ fee_records[1].paid_amount = before[1].paid_amount
        /\ fee_records[1].status = before[1].status

\* C5: after create_payment with amount > 0 on a record with paid_amount >= 0,
\* paid_amount has grown by amount, balance = total_amount - paid_amount, and
\* status is PAID when the new balance <= 0 and PARTIALLY_PAID otherwise.
C5_NewPayment ==
    [][Ok("create_payment") =>
         \A p \in DOMAIN payments' \ DOMAIN payments :
            LET amount == payments'[p].amount
                old == fee_records[payments'[p].fee_record_id]
                new == fee_records'[payments'[p].fee_record_id]
            IN  (amount > 0 /\ old.paid_amount >= 0) =>
                    /\ new.paid_amount = old.paid_amount + amount
                    /\ Balanced(new)
                    /\ new.status = IF new.balance <= 0 THEN PAID
                                    ELSE PARTIALLY_PAID]_vars

\* total 2, paid 0: paying 1 gives PARTIALLY_PAID with balance 1.
C5_Witness ==
    /\ response = [op |-> "create_payment", code |-> HTTP_200_OK]
    /\ \E id \in DOMAIN fee_records :
        /\ fee_records[id].total_amount = 2
        /\ initial_paid_amount[id] = 0
        /\ \E p \in PaymentsOf(id) : PaymentsOf(id) = {p} /\ payments[p].amount = 1
        /\ fee_records[id].balance = 1
        /\ fee_records[id].status = PARTIALLY_PAID

\* C6: after update_payment changes a payment's amount from old to new, the
\* owning record has paid_amount increased by new - old, balance =
\* total_amount - paid_amount, and the status of the derivation table.
C6_AmendedPayment ==
    [][Ok("update_payment") =>
         \A p \in DOMAIN payments :
            payments'[p].amount # payments[p].amount =>
                LET old == fee_records[payments[p].fee_record_id]
                    new == fee_records'[payments[p].fee_record_id]
                IN  /\ new.paid_amount = old.paid_amount
                            + (payments'[p].amount - payments[p].amount)
                    /\ Balanced(new)
                    /\ new.status = Derived(new)]_vars

\* Lowering payments to 0 has brought a record back to PENDING, balance 2.
C6_Witness ==
    /\ response = [op |-> "update_payment", code |-> HTTP_200_OK]
    /\ \E id \in DOMAIN fee_records :
        /\ Cardinality(PaymentsOf(id)) = 2
        /\ \A p \in PaymentsOf(id) : payments[p].amount = 0
        /\ fee_records[id].total_amount = 2
        /\ fee_records[id].paid_amount = 0
        /\ fee_records[id].balance = 2
        /\ fee_records[id].status = PENDING

\* C7: after delete_payment the owning record's status is PENDING when the
\* resulting paid_amount <= 0, otherwise PAID when the resulting balance <= 0,
\* otherwise PARTIALLY_PAID.
C7_RemovedPaymentStatus ==
    [][Ok("delete_payment") =>
         \A p \in DOMAIN payments \ DOMAIN payments' :
            LET new == fee_records'[payments[p].fee_record_id]
            IN  new.status = IF new.paid_amount <= 0 THEN PENDING
                             ELSE IF new.balance <= 0 THEN PAID
                             ELSE PARTIALLY_PAID]_vars

\* C8: whenever delete_payment brings paid_amount to 0 or below, the status
\* becomes PENDING.
C8_RemovedToZeroIsPending ==
    [][Ok("delete_payment") =>
         \A p \in DOMAIN payments \ DOMAIN payments' :
            LET new == fee_records'[payments[p].fee_record_id]
            IN  new.paid_amount <= 0 => new.status = PENDING]_vars

C8_Witness ==
    /\ response = [op |-> "delete_payment", code |-> HTTP_200_OK]
    /\ \E id \in DOMAIN fee_records :
        /\ fee_records[id].paid_amount = 0
        /\ fee_records[id].total_amount = 0
        /\ fee_records[id].status = PENDING

\* C9: a payment request that changes a fee record's status writes PAID,
\* PARTIALLY_PAID or PENDING; OVERDUE, CANCELLED and REFUNDED are written by
\* create_fee_record and update_fee_record only.
C9_DerivedStatusesOnly ==
    [][/\ \A op \in PaymentOps : Ok(op) =>
            \A id \in DOMAIN fee_records :
                fee_records'[id].status # fee_records[id].status =>
                    fee_records'[id].status \in {PAID, PARTIALLY_PAID, PENDING}
       /\ \A id \in DOMAIN fee_records' :
            (/\ fee_records'[id].status \in {OVERDUE, CANCELLED, REFUNDED}
             /\ id \in DOMAIN fee_records => fee_records[id].status # fee_records'[id].status)
                => response'.op \in FeeRecordOps]_vars

\* A payment request has run on a CANCELLED record and left its status alone.
C9_Witness ==
    /\ response.op \in PaymentOps
    /\ response.code = HTTP_200_OK
    /\ \E id \in DOMAIN fee_records :
        /\ PaymentsOf(id) # {}
        /\ fee_records[id].status = CANCELLED
        /\ fee_records[id].paid_amount <= 0

\* C10: update_payment that leaves the amount as it is changes no fee record,
\* and no payment request changes a fee record's total_amount, due_date, term,
\* academic_year, student_id or fee_structure_id.
C10_PaymentFrame ==
    [][/\ (Ok("update_payment") /\ payments' = payments) => fee_records' = fee_records
       /\ response'.op \in PaymentOps =>
            /\ DOMAIN fee_records' = DOMAIN fee_records
            /\ \A id \in DOMAIN fee_records :
                \* the row differs in paid_amount, balance and status at most
                LET old == fee_records[id]
                    new == fee_records'[id]
                IN  [new EXCEPT !.paid_amount = old.paid_amount,
                                !.balance = old.balance,
                                !.status = old.status] = old]_vars

\* An unchanged-amount update has run on a record whose status is OVERDUE.
C10_Witness ==
    /\ response = [op |-> "update_payment", code |-> HTTP_200_OK]
    /\ \E id \in DOMAIN fee_records :
        /\ PaymentsOf(id) # {}
        /\ fee_records[id].status = OVERDUE


\* ------------------------------------------------------- timetable claims
\* The times of day inside the half-open interval [start_time, end_time).
Interval(slot) == {t \in Times : slot.start_time <= t /\ t < slot.end_time}

SameTimetableAndDay(a, b) == a.timetable_id = b.timetable_id /\ a.day = b.day

\* existing.start < candidate.end and existing.end > candidate.start
Overlaps(existing, candidate) ==
    /\ existing.start_time < candidate.end_time
    /\ existing.end_time > candidate.start_time

\* One interval ends exactly when the other starts.
Touches(a, b) == a.end_time = b.start_time \/ b.end_time = a.start_time

\* The slot an update asks for: the fields it sets, over the stored slot.
Candidate(slot_id, update_data) == SetAttrs(timetable_slots[slot_id], update_data)

SetsTime(update_data) == {"day", "start_time", "end_time"} \cap DOMAIN update_data # {}

\* The step is create_timetable_slot run on slot_in, or update_timetable_slot
\* run on (slot_id, update_data); the tests that tell most requests apart
\* come first.
CreateStep(slot_in) ==
    /\ response'.op = "create_timetable_slot"
    /\ response'.code = HTTP_200_OK =>
            \E id \in DOMAIN timetable_slots' : timetable_slots'[id] = slot_in
    /\ create_timetable_slot(slot_in)

UpdateStep(slot_id, update_data) ==
    /\ response'.op = "update_timetable_slot"
    /\ response'.code = HTTP_200_OK =>
            timetable_slots'[slot_id] = Candidate(slot_id, update_data)
    /\ update_timetable_slot(slot_id, update_data)

Rejected ==
    /\ response'.code = HTTP_400_BAD_REQUEST
    /\ response'.detail = "Time slot conflicts with existing slots"
    /\ timetable_slots' = timetable_slots

Accepted(op) == response' = [op |-> op, code |-> HTTP_200_OK]

Inserted(slot_in) ==
    /\ Accepted("create_timetable_slot")
    /\ \E id \in DOMAIN timetable_slots' \ DOMAIN timetable_slots :
            timetable_slots' = Insert(timetable_slots, id, slot_in)

Updated(slot_id, update_data) ==
    /\ Accepted("update_timetable_slot")
    /\ timetable_slots' =
            [timetable_slots EXCEPT ![slot_id] = Candidate(slot_id, update_data)]

\* A slot of the candidate's timetable and day, among others, overlaps it.
Conflicting(candidate, others) ==
    \E id \in others :
        /\ SameTimetableAndDay(timetable_slots[id], candidate)
        /\ Overlaps(timetable_slots[id], candidate)

\* The candidate covers some time, shares no time with the other slots of its
\* timetable and day, and touches one of them.
OnlyTouches(candidate, others) ==
    /\ Interval(candidate) # {}
    /\ \A id \in others :
            SameTimetableAndDay(timetable_slots[id], candidate)
                => Interval(timetable_slots[id]) \cap Interval(candidate) = {}
    /\ \E id \in others :
            /\ SameTimetableAndDay(timetable_slots[id], candidate)
            /\ Touches(timetable_slots[id], candidate)

\* C11: after any sequence of create, update and delete slot requests, no two
\* stored slots of the same timetable and the same day have overlapping
\* [start_time, end_time) intervals.
C11_NoOverlap ==
    \A a, b \in DOMAIN timetable_slots :
        (a # b /\ SameTimetableAndDay(timetable_slots[a], timetable_slots[b]))
            => Interval(timetable_slots[a]) \cap Interval(timetable_slots[b]) = {}

\* An update has been accepted with two non-empty slots on the same day.
C11_Witness ==
    /\ response = [op |-> "update_timetable_slot", code |-> HTTP_200_OK]
    /\ \E a, b \in DOMAIN timetable_slots :
        /\ a # b
        /\ SameTimetableAndDay(timetable_slots[a], timetable_slots[b])
        /\ Interval(timetable_slots[a]) # {}
        /\ Interval(timetable_slots[b]) # {}

\* C12: a create or update whose candidate overlaps an existing slot of the
\* same timetable and day is rejected with the conflict error and leaves the
\* store as it was: nothing inserted, no field of the slot modified.
C12_ConflictRejected ==
    [][/\ \A slot_in \in TimetableSlotCreate :
            (/\ CreateStep(slot_in)
             /\ slot_in.timetable_id \in DOMAIN timetables
             /\ Conflicting(slot_in, DOMAIN timetable_slots))
                => Rejected
       /\ \A slot_id \in DOMAIN timetable_slots, update_data \in TimetableSlotUpdate :
            (/\ UpdateStep(slot_id, update_data)
             /\ SetsTime(update_data)
             /\ Conflicting(Candidate(slot_id, update_data),
                            DOMAIN timetable_slots \ {slot_id}))
                => Rejected]_vars

\* An update has been refused and the slots are the ones read before it.
C12_Witness ==
    /\ response.op = "update_timetable_slot"
    /\ response.code = HTTP_400_BAD_REQUEST
    /\ timetable_slots = before
    /\ \E a, b \in DOMAIN timetable_slots :
        a # b /\ SameTimetableAndDay(timetable_slots[a], timetable_slots[b])

\* C13: slots of one timetable and day whose intervals only touch do not
\* conflict: a create or an update into such a position is accepted.
C13_TouchingAccepted ==
    [][/\ \A slot_in \in TimetableSlotCreate :
            (/\ CreateStep(slot_in)
             /\ slot_in.timetable_id \in DOMAIN timetables
             /\ OnlyTouches(slot_in, DOMAIN timetable_slots))
                => Inserted(slot_in)
       /\ \A slot_id \in DOMAIN timetable_slots, update_data \in TimetableSlotUpdate :
            (/\ UpdateStep(slot_id, update_data)
             /\ SetsTime(update_data)
             /\ OnlyTouches(Candidate(slot_id, update_data),
                            DOMAIN timetable_slots \ {slot_id}))
                => Updated(slot_id, update_data)]_vars

\* A slot has been created next to the one read before: [0,1) and [1,2).
C13_Witness ==
    /\ response = [op |-> "create_timetable_slot", code |-> HTTP_200_OK]
    /\ DOMAIN before = {1}
    /\ DOMAIN timetable_slots = {1, 2}
    /\ SameTimetableAndDay(timetable_slots[1], timetable_slots[2])
    /\ timetable_slots[1].start_time = 0 /\ timetable_slots[1].end_time = 1
    /\ timetable_slots[2].start_time = 1 /\ timetable_slots[2].end_time = 2

\* C14: only slots of the candidate's timetable_id and day count: a create or
\* update is refused for a conflict only if a slot of that timetable and day
\* overlaps the candidate, whatever slots other timetables and days hold.
C14_SameTimetableAndDayOnly ==
    [][/\ \A slot_in \in TimetableSlotCreate :
            (/\ response'.code = HTTP_400_BAD_REQUEST
             /\ CreateStep(slot_in))
                => Conflicting(slot_in, DOMAIN timetable_slots)
       /\ \A slot_id \in DOMAIN timetable_slots, update_data \in TimetableSlotUpdate :
            (/\ response'.code = HTTP_400_BAD_REQUEST
             /\ UpdateStep(slot_id, update_data))
                => Conflicting(Candidate(slot_id, update_data),
                               DOMAIN timetable_slots \ {slot_id})]_vars

\* A slot has been created at the hours of the stored slot of the same day in
\* the other timetable.
C14_Witness ==
    /\ response = [op |-> "create_timetable_slot", code |-> HTTP_200_OK]
    /\ DOMAIN before = {1}
    /\ DOMAIN timetable_slots = {1, 2}
    /\ timetable_slots[1].timetable_id # timetable_slots[2].timetable_id
    /\ timetable_slots[1].day = timetable_slots[2].day
    /\ Interval(timetable_slots[1]) \cap Interval(timetable_slots[2]) # {}

\* C15: update_timetable_slot leaves the slot itself out of the conflict scan:
\* an update whose resulting day and interval (missing fields taken from the
\* stored slot) overlap no other slot of the timetable and day is accepted.
C15_OwnIntervalIgnored ==
    [][\A slot_id \in DOMAIN timetable_slots, update_data \in TimetableSlotUpdate :
            (/\ UpdateStep(slot_id, update_data)
             /\ SetsTime(update_data)
             /\ ~Conflicting(Candidate(slot_id, update_data),
                             DOMAIN timetable_slots \ {slot_id}))
                => Updated(slot_id, update_data)]_vars

\* A slot has been moved on its day to hours that share time with the hours
\* it had before.
C15_Witness ==
    /\ response = [op |-> "update_timetable_slot", code |-> HTTP_200_OK]
    /\ \E id \in DOMAIN timetable_slots :
        /\ timetable_slots[id].day = before[id].day
        /\ timetable_slots[id].start_time # before[id].start_time
        /\ Interval(timetable_slots[id]) \cap Interval(before[id]) # {}

\* C16: an update that sets none of day, start_time, end_time never runs the
\* conflict check and is not refused, also when another slot of the timetable
\* and day overlaps the slot.
C16_OtherFieldsUnchecked ==
    [][\A slot_id \in DOMAIN timetable_slots, update_data \in TimetableSlotUpdate :
            (/\ ~SetsTime(update_data)
             /\ UpdateStep(slot_id, update_data))
                => Updated(slot_id, update_data)]_vars

\* The room of a slot has been changed while another slot of its timetable
\* and day overlaps it.
C16_Witness ==
    /\ response = [op |-> "update_timetable_slot", code |-> HTTP_200_OK]
    /\ \E a, b \in DOMAIN timetable_slots :
        /\ a # b
        /\ timetable_slots[a].room_number # before[a].room_number
        /\ SameTimetableAndDay(timetable_slots[a], timetable_slots[b])
        /\ Interval(timetable_slots[a]) \cap Interval(timetable_slots[b]) # {}

\* The stored slots that conflict with the candidate.
ConflictingSlots(candidate, others) ==
    {id \in others :
        /\ SameTimetableAndDay(timetable_slots[id], candidate)
        /\ Overlaps(timetable_slots[id], candidate)}

\* C17: a create or update refused for a time conflict reports every
\* conflicting slot to the caller: the response tells the conflicting slots,
\* so no one response answers two requests whose conflicting slots differ.
C17_ConflictsReported ==
    [][response'.code = HTTP_400_BAD_REQUEST =>
        /\ \A a, b \in TimetableSlotCreate :
            (CreateStep(a) /\ CreateStep(b))
                => ConflictingSlots(a, DOMAIN timetable_slots)
                        = ConflictingSlots(b, DOMAIN timetable_slots)
        /\ \A slot_id \in DOMAIN timetable_slots :
            \A a, b \in TimetableSlotUpdate :
                (UpdateStep(slot_id, a) /\ UpdateStep(slot_id, b))
                    => ConflictingSlots(Candidate(slot_id, a),
                                        DOMAIN timetable_slots \ {slot_id})
                        = ConflictingSlots(Candidate(slot_id, b),
                                           DOMAIN timetable_slots \ {slot_id})]_vars

\* C18: every stored slot has start_time < end_time; a request whose time
\* range has start_time >= end_time is rejected and stores nothing.
C18_StartBeforeEnd ==
    \A id \in DOMAIN timetable_slots :
        timetable_slots[id].start_time < timetable_slots[id].end_time

\* C19: every stored payment has amount > 0; a request with amount <= 0 is
\* rejected and changes neither the payments nor any fee record.
C19_PositiveAmount ==
    \A id \in DOMAIN payments : payments[id].amount > 0

\* C20: create_payment whose fee_record_id names no stored fee record fails
\* with 404 and leaves the store unchanged: no payment is inserted and no fee
\* record is modified.
C20_UnknownFeeRecord ==
    [][\A fee_record_id \in RequestedFeeRecordIds, amount \in Amounts :
            (/\ fee_record_id \notin DOMAIN fee_records
             /\ create_payment(fee_record_id, amount))
                => /\ response' = [op |-> "create_payment",
                                   code |-> HTTP_404_NOT_FOUND]
                   /\ payments' = payments
                   /\ fee_records' = fee_records]_vars

\* The request for an unknown fee record has been refused after a payment on
\* record 1 was stored; that payment and the record are as they were.
C20_Witness ==
    /\ response = [op |-> "create_payment", code |-> HTTP_404_NOT_FOUND]
    /\ DOMAIN fee_records = {1}
    /\ DOMAIN payments = {1}
    /\ payments[1].fee_record_id = 1
    /\ fee_records[1].paid_amount = before[1].paid_amount + payments[1].amount

\* -------------------------------------------- subject and student claims
\* The update would leave the row with a value another row already holds.
TakesValueOf(table, id, update_data, column) ==
    /\ id \in DOMAIN table
    /\ column \in DOMAIN update_data
    /\ \E other \in DOMAIN table \ {id} : table[other][column] = update_data[column]

\* C21: after any sequence of subject requests no two stored subjects share
\* a code, and a create or an update that would give a subject a code held
\* by another subject is answered 400 and changes nothing.
C21_UniqueSubjectCode ==
    [][/\ Unique(subjects', "code")
       /\ \A subject_in \in SubjectCreate :
            (/\ create_subject(subject_in)
             /\ subjects_with_code(subject_in.code) # {})
            => (response'.code = HTTP_400_BAD_REQUEST /\ subjects' = subjects)
       /\ \A subject_id \in SubjectRowIds, update_data \in SubjectUpdate :
            (/\ update_subject(subject_id, update_data)
             /\ TakesValueOf(subjects, subject_id, update_data, "code"))
            => (response'.code = HTTP_400_BAD_REQUEST /\ subjects' = subjects)]_vars

\* C22: every request that would give two students the same student_id,
\* through create_student or through update_student, is answered 400 by the
\* handler and leaves the stored students unchanged.
C22_DuplicateStudentIdRejected ==
    [][/\ \A student_in \in StudentCreate :
            (/\ create_student(student_in)
             /\ students_with_student_id(student_in.student_id) # {})
            => (response'.code = HTTP_400_BAD_REQUEST /\ students' = students)
       /\ \A student_id \in StudentRowIds, update_data \in StudentUpdate :
            (/\ update_student(student_id, update_data)
             /\ TakesValueOf(students, student_id, update_data, "student_id"))
            => (response'.code = HTTP_400_BAD_REQUEST /\ students' = students)]_vars

\* ------------------------------------------------------ concurrency claims
\* Both handlers have answered, and h ran its select while g had run its
\* select and had not committed: both read before either committed.
Raced(h, g) ==
    /\ h # g
    /\ in_flight[h].pc = "done"
    /\ in_flight[g].pc = "done"
    /\ "pending" \in DOMAIN in_flight[h]
    /\ "pending" \in DOMAIN in_flight[g]
    /\ g \in in_flight[h].pending

\* C23: two create_payment handlers that both read the same fee record
\* before either commits both commit, and paid_amount is then not the amount
\* the record started with plus the stored payments' amounts: the payment
\* that committed first is lost.
C23_LostUpdate ==
    \A h, g \in Handlers :
        (/\ Raced(h, g)
         /\ in_flight[h].fee_record_id = in_flight[g].fee_record_id
         /\ in_flight[h].amount # 0
         /\ in_flight[g].amount # 0)
        => LET id == in_flight[h].fee_record_id
           IN  /\ in_flight[h].code = HTTP_200_OK
               /\ in_flight[g].code = HTTP_200_OK
               /\ Cardinality(PaymentsOf(id)) = 2
               /\ fee_records[id].paid_amount #
                    initial_paid_amount[id] + SumAmounts(payments, PaymentsOf(id))

C23_Witness ==
    \E h, g \in Handlers :
        /\ Raced(h, g)
        /\ in_flight[h].amount > 0
        /\ in_flight[g].amount > 0
        /\ initial_paid_amount[1] = 0
        /\ Cardinality(PaymentsOf(1)) = 2
        /\ fee_records[1].paid_amount # SumAmounts(payments, PaymentsOf(1))

\* C24: two create_timetable_slot handlers for the same timetable and day
\* whose intervals overlap, and whose conflict queries both ran before either
\* committed and found nothing, are both accepted: two stored slots of one
\* timetable and day overlap.
C24_OverlapStored ==
    \A h, g \in Handlers :
        (/\ Raced(h, g)
         /\ SameTimetableAndDay(in_flight[h].slot_in, in_flight[g].slot_in)
         /\ Overlaps(in_flight[h].slot_in, in_flight[g].slot_in))
        => /\ in_flight[h].code = HTTP_200_OK
           /\ in_flight[g].code = HTTP_200_OK
           /\ in_flight[h].id # in_flight[g].id
           /\ timetable_slots[in_flight[h].id] = in_flight[h].slot_in
           /\ timetable_slots[in_flight[g].id] = in_flight[g].slot_in

C24_Witness ==
    \E h, g \in Handlers :
        /\ Raced(h, g)
        /\ \E i, j \in DOMAIN timetable_slots :
            /\ i # j
            /\ SameTimetableAndDay(timetable_slots[i], timetable_slots[j])
            /\ Interval(timetable_slots[i]) \cap Interval(timetable_slots[j]) # {}

\* ------------------------------------------------- fee record life cycle
\* C25: every stored payment references a fee record that is stored, also
\* after delete_fee_record on a record that still has payments.
C25_PaymentHasFeeRecord ==
    \A p \in DOMAIN payments : payments[p].fee_record_id \in DOMAIN fee_records

C25_Witness ==
    /\ response = [op |-> "delete_fee_record", code |-> HTTP_500_INTERNAL_SERVER_ERROR]
    /\ payments # <<>>
    /\ C25_PaymentHasFeeRecord

\* C26: update_payment and delete_payment on a payment id that is not
\* stored answer 404 and change no fee record and no payment; a delete that
\* succeeds subtracts the amount and removes the row, so that a second delete
\* of the same payment is such a 404.
C26_UnknownPayment ==
    [][/\ \A id \in PaymentIds, update_data \in PaymentUpdate :
            (/\ response'.op = "update_payment"
             /\ id \notin DOMAIN payments
             /\ update_payment(id, update_data))
            => /\ response'.code = HTTP_404_NOT_FOUND
               /\ fee_records' = fee_records
               /\ payments' = payments
       /\ \A id \in PaymentIds :
            (/\ response'.op = "delete_payment"
             /\ delete_payment(id))
            => IF id \notin DOMAIN payments
               THEN /\ response'.code = HTTP_404_NOT_FOUND
                    /\ fee_records' = fee_records
                    /\ payments' = payments
               ELSE /\ response'.code = HTTP_200_OK
                    /\ id \notin DOMAIN payments'
                    /\ LET owner == payments[id].fee_record_id
                       IN  fee_records'[owner].paid_amount =
                                fee_records[owner].paid_amount - payments[id].amount]_vars

\* The second delete of a payment: the record is back at the paid_amount it
\* started with, and the request is answered 404.
C26_Witness ==
    /\ response = [op |-> "delete_payment", code |-> HTTP_404_NOT_FOUND]
    /\ payments = <<>>
    /\ 1 \in DOMAIN fee_records
    /\ fee_records[1].paid_amount = initial_paid_amount[1]
    /\ fee_records[1].status # before[1].status

\* ------------------------------------------------- status set by a client
ExternalStatuses == {OVERDUE, CANCELLED, REFUNDED}

\* Payment p of record id is stored before the step.
PaymentOn(p, id) == p \in DOMAIN payments /\ payments[p].fee_record_id = id

\* C27: on a fee record whose status is OVERDUE, CANCELLED or REFUNDED, a
\* create_payment with amount > 0, an update_payment that changes the amount
\* and a delete_payment are answered 200 and replace the status with PAID,
\* PARTIALLY_PAID or PENDING.
C27_ExternalStatusReplaced ==
    [][\A id \in DOMAIN fee_records :
        fee_records[id].status \in ExternalStatuses =>
            /\ \A amount \in 1..MaxAmount :
                (response'.op = "create_payment" /\ create_payment(id, amount))
                => /\ response'.code = HTTP_200_OK
                   /\ fee_records'[id].status \in {PAID, PARTIALLY_PAID, PENDING}
            /\ \A p \in PaymentIds, update_data \in PaymentUpdate :
                (/\ response'.op = "update_payment"
                 /\ PaymentOn(p, id)
                 /\ amount_was_updated(update_data, payments[p].amount)
                 /\ update_payment(p, update_data))
                => /\ response'.code = HTTP_200_OK
                   /\ fee_records'[id].status \in {PAID, PARTIALLY_PAID, PENDING}
            /\ \A p \in PaymentIds :
                (/\ response'.op = "delete_payment"
                 /\ PaymentOn(p, id)
                 /\ delete_payment(p))
                => /\ response'.code = HTTP_200_OK
                   /\ fee_records'[id].status \in {PAID, PARTIALLY_PAID, PENDING}]_vars

\* ------------------------------------------------------ exam result claims
Triple(result) == <<result.student_id, result.exam_id, result.subject_id>>

OnePerTriple(table) ==
    \A i, j \in DOMAIN table : Triple(table[i]) = Triple(table[j]) => i = j

\* C28: at most one exam result is stored per (student_id, exam_id,
\* subject_id); a create for a triple that has a result is answered 400 and
\* stores nothing; update_exam_result changes none of the three ids.
C28_OneResultPerTriple ==
    [][/\ OnePerTriple(exam_results')
       /\ \A result_in \in ExamResultCreate :
            (/\ response'.op = "create_exam_result"
             /\ \E id \in DOMAIN exam_results :
                    Triple(exam_results[id]) = Triple(result_in)
             /\ create_exam_result(result_in))
            => (response'.code = HTTP_400_BAD_REQUEST /\ exam_results' = exam_results)
       /\ \A result_id \in ExamResultIds, body \in ExamResultUpdateBody :
            (/\ response'.op = "update_exam_result"
             /\ result_id \in DOMAIN exam_results
             /\ update_exam_result(result_id, body))
            => Triple(exam_results'[result_id]) = Triple(exam_results[result_id])]_vars

\* A create for a stored triple was answered 400 while two results, one of
\* them updated, are stored.
C28_Witness ==
    /\ response = [op |-> "create_exam_result", code |-> HTTP_400_BAD_REQUEST]
    /\ Cardinality(DOMAIN exam_results) = 2
    /\ \E id \in DOMAIN exam_results : exam_results[id].grade # None

\* ------------------------------------------------------------ report claims
\* The calendar date after t.
Tomorrow(t) ==
    IF t.day < DaysInMonth(t.year, t.month) THEN [t EXCEPT !.day = t.day + 1]
    ELSE IF t.month < 12 THEN [t EXCEPT !.month = t.month + 1, !.day = 1]
    ELSE [t EXCEPT !.year = t.year + 1, !.month = 1, !.day = 1]

RECURSIVE DaysAfter(_, _)
DaysAfter(t, n) == IF n = 0 THEN t ELSE DaysAfter(Tomorrow(t), n - 1)

\* C29: on every date, run_report on a stored scheduled report whose
\* schedule_frequency is "daily" or "weekly" is answered 200, sets last_run to
\* the current time and next_run to midnight 1 day or 7 days after today.
C29_NextRun ==
    [][\A report_id \in ReportIds, now \in Now :
        (/\ response'.op = "run_report"
         /\ report_id \in DOMAIN reports
         /\ reports[report_id].is_scheduled
         /\ reports[report_id].schedule_frequency \in {"daily", "weekly"}
         /\ run_report(report_id, now))
        => /\ response'.code = HTTP_200_OK
           /\ reports'[report_id].last_run = now
           /\ reports'[report_id].next_run =
                DaysAfter([now EXCEPT !.hour = 0],
                          IF reports[report_id].schedule_frequency = "daily"
                          THEN 1 ELSE 7)]_vars

\* ------------------------------------------------------------ owner claims
\* C30: no update_payment request changes a payment's fee_record_id, and no
\* update_timetable_slot request changes a slot's timetable_id.
C30_OwnerKept ==
    [][/\ response'.op = "update_payment" =>
            \A p \in DOMAIN payments :
                /\ p \in DOMAIN payments'
                /\ payments'[p].fee_record_id = payments[p].fee_record_id
       /\ response'.op = "update_timetable_slot" =>
            \A s \in DOMAIN timetable_slots :
                /\ s \in DOMAIN timetable_slots'
                /\ timetable_slots'[s].timetable_id = timetable_slots[s].timetable_id]_vars

\* The payment and the slot have both been updated and have their owners.
C30_Witness ==
    /\ response.op \in {"update_payment", "update_timetable_slot"}
    /\ response.code = HTTP_200_OK
    /\ payments[1].amount # 1
    /\ payments[1].fee_record_id = 1
    /\ timetable_slots[1] # before[1]
    /\ timetable_slots[1].timetable_id = before[1].timetable_id

====
